---------------------------- MODULE Spec2Model ----------------------------
(***************************************************************************)
(* Model of nw-utils' Cloudflare Access authenticator (newAuthCloudflare)  *)
(* and of the request helpers it uses (getTokenFromHeader,                  *)
(* getTokenFromCookie, parseCookie).                                        *)
(*                                                                          *)
(* Strings are sequences of lexemes.  A lexeme is either a delimiter        *)
(* character, a chunk of characters that holds no delimiter, a percent      *)
(* escape, or a base64url chunk standing for the bytes it encodes.          *)
(* JavaScript values are tagged records, so that truthiness, strict         *)
(* equality and property access on null behave as they do in the code.      *)
(***************************************************************************)
EXTENDS Integers, Sequences, FiniteSets, TLC

(***************************************************************************)
(* JavaScript values                                                        *)
(***************************************************************************)
Undef == [t |-> "undefined"]
JsNull == [t |-> "null"]
JStr(s) == [t |-> "string", s |-> s]
JNum(n) == [t |-> "number", n |-> n]
JArr(a) == [t |-> "array", a |-> a]

\* ToBoolean: undefined, null, "" and 0 are falsy; arrays and objects truthy.
Truthy(v) ==
  CASE v.t = "undefined" -> FALSE
    [] v.t = "null" -> FALSE
    [] v.t = "string" -> v.s # ""
    [] v.t = "number" -> v.n # 0
    [] OTHER -> TRUE

\* Reading a property of null or undefined throws a TypeError.
Nullish(v) == v.t \in {"undefined", "null"}

(***************************************************************************)
(* Results (neverthrow) and errors                                          *)
(***************************************************************************)
\* The classes of error.ts and the class each extends.
Classes == {"AppError", "SystemError", "UserError", "ValidationError",
            "NotFoundError", "AuthError"}
Extends ==
  [c \in Classes \cup {"Error"} |->
     CASE c = "Error" -> "Object"
       [] c \in {"SystemError", "UserError"} -> "AppError"
       [] c \in {"ValidationError", "NotFoundError", "AuthError"} -> "UserError"
       [] OTHER -> "Error"]
\* the classes that are not abstract
Concrete == {"SystemError", "ValidationError", "NotFoundError", "AuthError"}
\* the `public code = ...` field initialiser of a class, if it has one
CodeOf ==
  [c \in Classes |->
     CASE c = "AppError" -> <<"App Error">>
       [] c = "SystemError" -> <<"System Error">>
       [] c = "ValidationError" -> <<"Validation Error">>
       [] c = "NotFoundError" -> <<"NotFound Error">>
       [] c = "AuthError" -> <<"Auth Error">>
       [] OTHER -> <<>>]

\* the prototype chain that starts at the prototype of class c
RECURSIVE Chain(_)
Chain(c) == IF c = "Object" THEN {c} ELSE {c} \cup Chain(Extends[c])
\* obj instanceof c
InstanceOf(obj, c) == c \in Chain(obj.proto)

\* the field initialisers run from the base class down: the value of code is
\* the one of the most derived class that has an initialiser
RECURSIVE InitialCode(_)
InitialCode(c) == IF CodeOf[c] # <<>> THEN CodeOf[c][1] ELSE InitialCode(Extends[c])

\* new c(message, details?, e?): super(message) makes an object whose
\* prototype is c.prototype; AppError's constructor sets details and stack,
\* sets name to this.constructor.name and then sets the prototype to
\* SystemError.prototype; the field initialisers of the derived classes set
\* code.  details and e are <<>> when not given, else <<value>>.
construct(c, message, details, e) ==
  [name |-> c, proto |-> "SystemError", code |-> InitialCode(c),
   message |-> message,
   details |-> IF details = <<>> THEN <<>> ELSE details[1],
   stack |-> <<"at new ", c>> \o
             (IF e = <<>> THEN <<>> ELSE <<"Caused by: ">> \o e[1].stack)]

\* new AuthError(message), as the authenticator uses it: the fields it and its
\* callers read.  The message is kept as the list of its fragments.
AuthError(msg) ==
  LET o == construct("AuthError", msg, <<>>, <<>>) IN
  [name |-> o.name, code |-> o.code, proto |-> o.proto, message |-> o.message]
\* an Error, TypeError, SyntaxError or DOMException thrown by the platform
Thrown(msg) == [name |-> "Error", message |-> msg]

Ok(v) == [ok |-> TRUE, value |-> v]
Err(e) == [ok |-> FALSE, error |-> e]

(***************************************************************************)
(* Strings                                                                  *)
(***************************************************************************)
Ch(c) == [ch |-> c]
\* a well-formed percent escape %XX.. of the characters c
Esc(c) == [esc |-> c]
Semi == Ch(";")
Eq == Ch("=")
Sp == Ch(" ")
Dot == Ch(".")
\* a "%" that is not followed by two hexadecimal digits
Pct == Ch("%")

Range(s) == {s[k] : k \in DOMAIN s}

\* String.prototype.indexOf(c): 0 when absent, else the first position (1-based).
IndexOf(s, c) ==
  IF c \in Range(s) THEN CHOOSE k \in DOMAIN s : s[k] = c /\ \A j \in 1..(k - 1) : s[j] # c
  ELSE 0

\* String.prototype.split(sep) for a one-character separator.
RECURSIVE Split(_, _)
Split(s, sep) ==
  LET k == IndexOf(s, sep) IN
  IF k = 0 THEN <<s>>
  ELSE <<SubSeq(s, 1, k - 1)>> \o Split(SubSeq(s, k + 1, Len(s)), sep)

\* String.prototype.trim()
RECURSIVE TrimStart(_)
TrimStart(s) == IF s # <<>> /\ Head(s) = Sp THEN TrimStart(Tail(s)) ELSE s
RECURSIVE TrimEnd(_)
TrimEnd(s) ==
  IF s # <<>> /\ s[Len(s)] = Sp THEN TrimEnd(SubSeq(s, 1, Len(s) - 1)) ELSE s
Trim(s) == TrimEnd(TrimStart(s))

\* decodeURIComponent: throws URIError on a malformed escape, else replaces
\* every escape by the characters it stands for.
URIMalformed(s) == Pct \in Range(s)
DecodeURIComponent(s) ==
  [k \in DOMAIN s |-> IF "esc" \in DOMAIN s[k] THEN Ch(s[k].esc) ELSE s[k]]


(***************************************************************************)
(* Request helpers (adapter/util.ts)                                        *)
(***************************************************************************)
Some(v) == <<v>>
None == <<>>

\* Headers.get(name): the value, or null (None) when the header is absent.
HeadersGet(req, name) ==
  IF name \in DOMAIN req.headers THEN Some(req.headers[name]) ELSE None

getTokenFromHeader(req, headerKey) ==
  LET h == HeadersGet(req, headerKey) IN
  IF h # None THEN Ok(h[1]) ELSE Err(AuthError(<<"No token found in headers">>))

\* the callback of parseCookie's map: one "name=value" piece to [key, value]
CookiePair(cookie) ==
  LET trimmedCookie == Trim(cookie)
      separatorIndex == IndexOf(trimmedCookie, Eq)
      key == Trim(SubSeq(trimmedCookie, 1, separatorIndex - 1))
      value == Trim(SubSeq(trimmedCookie, separatorIndex + 1, Len(trimmedCookie)))
  IN IF separatorIndex = 0 THEN <<<<>>, <<>>>>
     ELSE IF URIMalformed(key) \/ URIMalformed(value) THEN <<key, value>>
     ELSE <<DecodeURIComponent(key), DecodeURIComponent(value)>>

\* new Map(entries): a later entry replaces an earlier one with the same key.
RECURSIVE MapOf(_)
MapOf(entries) ==
  IF entries = <<>> THEN <<>>
  ELSE LET m == MapOf(SubSeq(entries, 1, Len(entries) - 1))
           e == entries[Len(entries)]
       IN [k \in DOMAIN m \cup {e[1]} |-> IF k = e[1] THEN e[2] ELSE m[k]]

\* parseCookie reading the first pair only
parseCookieFirstOnly(cookieHeader) ==
  LET pieces == Split(cookieHeader, Semi)
      pairs == <<CookiePair(pieces[1])>>
  IN MapOf(SelectSeq(pairs, LAMBDA p : Len(p[1]) > 0))

parseCookie(cookieHeader) ==
  LET pieces == Split(cookieHeader, Semi)
      pairs == [k \in DOMAIN pieces |-> CookiePair(pieces[k])]
  IN MapOf(SelectSeq(pairs, LAMBDA p : Len(p[1]) > 0))

getTokenFromCookie(req, cookieKey) ==
  LET h == HeadersGet(req, "Cookie") IN
  IF h = None THEN Err(AuthError(<<"No Cookie header found">>))
  ELSE LET cookies == parseCookie(h[1]) IN
       IF cookieKey \in DOMAIN cookies /\ cookies[cookieKey] # <<>>
       THEN Ok(Trim(cookies[cookieKey]))
       ELSE Err(AuthError(<<"No token found in cookies">>))

(***************************************************************************)
(* Token extraction (adapter/auth-cloudflare)                               *)
(***************************************************************************)
AUTH_HEADER_KEY == "Cf-Access-Jwt-Assertion"
AUTH_COOKIE_KEY == <<Ch("CF_Authorization")>>

\* getToken with the cookie tried first
getTokenCookieFirst(req) ==
  LET c == getTokenFromCookie(req, AUTH_COOKIE_KEY) IN
  IF c.ok THEN c ELSE getTokenFromHeader(req, AUTH_HEADER_KEY)

getToken(req) ==
  LET h == getTokenFromHeader(req, AUTH_HEADER_KEY) IN
  IF h.ok THEN h ELSE getTokenFromCookie(req, AUTH_COOKIE_KEY)

(***************************************************************************)
(* Exceptions: an operation either returns a value or throws                *)
(***************************************************************************)
Return(v) == [thrown |-> FALSE, value |-> v]
Throw(e) == [thrown |-> TRUE, error |-> e]

(***************************************************************************)
(* Base64url chunks and the bytes they encode                               *)
(***************************************************************************)
\* the base64url encoding of the bytes x
B64(x) == [b64 |-> x]
\* bytes: the text of a JSON document with value v, or some other text
Json(v) == [k |-> "json", v |-> v]
Text == [k |-> "text"]
\* bytes: a signature made with key material `by`, digest `hash`, over `data`
SigBytes(by, hash, data) == [k |-> "sig", by |-> by, hash |-> hash, data |-> data]

\* a chunk that holds a character outside the base64 alphabet
BadChunk == Ch("!")
NotBase64(x) == x \in {Semi, Eq, Sp, Dot, Pct, BadChunk} \/ "esc" \in DOMAIN x

\* base64UrlDecode: atob throws on a character outside the alphabet; a single
\* base64url chunk yields the bytes it encodes, anything else some text.
base64UrlDecode(str) ==
  IF \E k \in DOMAIN str : NotBase64(str[k])
  THEN Throw(Thrown(<<"Invalid character">>))
  ELSE IF Len(str) = 1 /\ "b64" \in DOMAIN str[1] THEN Return(str[1].b64)
  ELSE Return(Text)

\* JSON.parse
JSONParse(bytes) ==
  IF bytes.k = "json" THEN Return(bytes.v)
  ELSE Throw(Thrown(<<"Unexpected token in JSON">>))

\* JSON.parse(base64UrlDecode(segment))
ParseSegment(segment) ==
  LET b == base64UrlDecode(segment) IN
  IF b.thrown THEN b ELSE JSONParse(b.value)

(***************************************************************************)
(* decodeJWT                                                                *)
(***************************************************************************)
\* decodeJWT decoding the signature segment as well
decodeJWTSignatureDecoded(token) ==
  LET parts == Split(token, Dot) IN
  IF Len(parts) # 3 THEN Err(AuthError(<<"Invalid JWT format">>))
  ELSE LET header == ParseSegment(parts[1])
           payload == ParseSegment(parts[2])
           signature == base64UrlDecode(parts[3])
       IN IF header.thrown
          THEN Err(AuthError(<<"Failed to decode JWT: ">> \o header.error.message))
          ELSE IF payload.thrown
          THEN Err(AuthError(<<"Failed to decode JWT: ">> \o payload.error.message))
          ELSE IF signature.thrown
          THEN Err(AuthError(<<"Failed to decode JWT: ">> \o signature.error.message))
          ELSE Ok([header |-> header.value, payload |-> payload.value,
                   signature |-> signature.value])

decodeJWT(token) ==
  LET parts == Split(token, Dot) IN
  IF Len(parts) # 3 THEN Err(AuthError(<<"Invalid JWT format">>))
  ELSE LET header == ParseSegment(parts[1])
           payload == ParseSegment(parts[2])
       IN IF header.thrown
          THEN Err(AuthError(<<"Failed to decode JWT: ">> \o header.error.message))
          ELSE IF payload.thrown
          THEN Err(AuthError(<<"Failed to decode JWT: ">> \o payload.error.message))
          ELSE Ok([header |-> header.value, payload |-> payload.value,
                   signature |-> parts[3]])

(***************************************************************************)
(* validatePayload                                                          *)
(***************************************************************************)
\* the aud claim as the list the code searches
Audiences(aud) ==
  IF aud.t = "array" THEN aud.a ELSE IF Truthy(aud) THEN <<aud>> ELSE <<>>

\* validatePayload with the audience check skipped for a token without aud
validatePayloadAudOptional(payload, issuer, audience, now) ==
  IF Nullish(payload) THEN Throw(Thrown(<<"Cannot read properties of null">>))
  ELSE IF Truthy(payload.exp) /\ payload.exp.n < now
  THEN Return(Err(AuthError(<<"Token has expired">>)))
  ELSE IF Truthy(payload.nbf) /\ payload.nbf.n > now
  THEN Return(Err(AuthError(<<"Token is not yet valid">>)))
  ELSE IF payload.iss # JStr(issuer)
  THEN Return(Err(AuthError(<<"Invalid issuer">>)))
  ELSE IF Truthy(audience) /\ Truthy(payload.aud)
          /\ audience \notin Range(Audiences(payload.aud))
  THEN Return(Err(AuthError(<<"Invalid audience">>)))
  ELSE Return(Ok(Undef))

validatePayload(payload, issuer, audience, now) ==
  IF Nullish(payload) THEN Throw(Thrown(<<"Cannot read properties of null">>))
  ELSE IF Truthy(payload.exp) /\ payload.exp.n < now
  THEN Return(Err(AuthError(<<"Token has expired">>)))
  ELSE IF Truthy(payload.nbf) /\ payload.nbf.n > now
  THEN Return(Err(AuthError(<<"Token is not yet valid">>)))
  ELSE IF payload.iss # JStr(issuer)
  THEN Return(Err(AuthError(<<"Invalid issuer">>)))
  ELSE IF Truthy(audience) /\ audience \notin Range(Audiences(payload.aud))
  THEN Return(Err(AuthError(<<"Invalid audience">>)))
  ELSE Return(Ok(Undef))

(***************************************************************************)
(* fetchJWKS: the settled outcome of fetch(jwksUrl) and response.json()     *)
(***************************************************************************)
\* what the key-set endpoint answers: fetch rejects, or resolves to a
\* response with its ok flag and its body
FetchRejects == [kind |-> "reject"]
Response(isOk, body) == [kind |-> "response", ok |-> isOk, body |-> body]

fetchJWKS(resp) ==
  IF resp.kind = "reject" THEN Throw(Thrown(<<"fetch failed">>))
  ELSE IF ~resp.ok THEN Throw(Thrown(<<"Failed to fetch JWKS: ", "statusText">>))
  ELSE JSONParse(resp.body)

(***************************************************************************)
(* Key resolution: jwks.keys.find((key) => key.kid === header.kid)          *)
(***************************************************************************)
JWKS(keys) == [t |-> "object", keys |-> keys]
JWK(kty, kid, crv, mat) ==
  [t |-> "object", kty |-> kty, kid |-> kid, crv |-> crv, mat |-> mat]

\* Array.prototype.find: the first element the callback accepts, or undefined
RECURSIVE Find(_, _)
Find(keys, kid) ==
  IF keys = <<>> THEN Undef
  ELSE IF Head(keys).kid = kid THEN Head(keys)
  ELSE Find(Tail(keys), kid)

findJwk(jwks, header) ==
  IF Nullish(jwks) THEN Throw(Thrown(<<"Cannot read properties of null">>))
  ELSE IF jwks.t # "object" \/ jwks.keys.t # "array"
  THEN Throw(Thrown(<<"jwks.keys.find is not a function">>))
  ELSE IF Nullish(header) THEN Throw(Thrown(<<"Cannot read properties of null">>))
  ELSE LET jwk == Find(jwks.keys.a, header.kid) IN
       IF ~Truthy(jwk)
       THEN Throw(AuthError(<<"No matching key found for kid: ">>))
       ELSE Return(jwk)

(***************************************************************************)
(* importPublicKey and crypto.subtle.importKey                              *)
(***************************************************************************)
\* the key material a JWK carries (n, e or x, y): its kind and curve
MatKty(mat) ==
  CASE mat \in {"rsaA", "rsaB"} -> "RSA"
    [] mat \in {"ecA", "ecB"} -> "EC"
    [] OTHER -> "none"
MatCurve(mat) ==
  CASE mat = "ecA" -> "P-256"
    [] mat = "ecB" -> "P-384"
    [] OTHER -> ""

CryptoKey(name, hash, mat) == [name |-> name, hash |-> hash, mat |-> mat]

\* crypto.subtle.importKey("jwk", jwk, algorithm, false, ["verify"])
importKey(jwk, name, namedCurve) ==
  IF name = "RSASSA-PKCS1-v1_5"
  THEN IF MatKty(jwk.mat) = "RSA"
       THEN Return(CryptoKey(name, "SHA-256", jwk.mat))
       ELSE Throw(Thrown(<<"DataError">>))
  ELSE IF MatKty(jwk.mat) = "EC" /\ jwk.crv = JStr(namedCurve)
          /\ MatCurve(jwk.mat) = namedCurve
       THEN Return(CryptoKey(name, "", jwk.mat))
       ELSE Throw(Thrown(<<"DataError">>))

importPublicKey(jwk) ==
  IF jwk.kty = JStr("RSA") THEN importKey(jwk, "RSASSA-PKCS1-v1_5", "")
  ELSE IF jwk.kty = JStr("EC")
  THEN importKey(jwk, "ECDSA", IF jwk.crv = JStr("P-256") THEN "P-256" ELSE "P-384")
  ELSE Throw(Thrown(<<"Unsupported key type: ">>))

(***************************************************************************)
(* verifySignature and crypto.subtle.verify                                 *)
(***************************************************************************)
\* crypto.subtle.verify(algorithm, key, signature, data)
cryptoVerify(name, hash, publicKey, signature, data) ==
  IF publicKey.name # name THEN Throw(Thrown(<<"InvalidAccessError">>))
  ELSE Return(/\ signature.k = "sig"
              /\ signature.by = publicKey.mat
              /\ signature.hash = (IF name = "ECDSA" THEN hash ELSE publicKey.hash)
              /\ signature.data = data)

\* algorithm.startsWith(prefix)
StartsWith(algorithm, prefix) ==
  CASE prefix = "RS" -> algorithm \in {"RS256", "RS384", "RS512"}
    [] prefix = "ES" -> algorithm \in {"ES256", "ES384", "ES512"}
    [] OTHER -> FALSE

\* verifySignature up to its await: the call of crypto.subtle.verify it makes
\* ([call |-> TRUE, name, hash, signature, data]), or, when it makes none, what
\* it returns or throws.
verifySignature(token, algorithm) ==
  LET parts == Split(token, Dot) IN
  IF Len(parts) # 3 THEN [call |-> FALSE, outcome |-> Return(FALSE)]
  ELSE LET data == parts[1] \o <<Dot>> \o parts[2]
           signature == base64UrlDecode(parts[3])
       IN IF signature.thrown THEN [call |-> FALSE, outcome |-> signature]
          ELSE IF algorithm.t # "string"
          THEN [call |-> FALSE,
                outcome |-> Throw(Thrown(<<"algorithm.startsWith is not a function">>))]
          ELSE IF StartsWith(algorithm.s, "RS")
          THEN [call |-> TRUE, name |-> "RSASSA-PKCS1-v1_5", hash |-> "",
                signature |-> signature.value, data |-> data]
          ELSE IF StartsWith(algorithm.s, "ES")
          THEN [call |-> TRUE, name |-> "ECDSA",
                hash |-> IF algorithm.s = "ES256" THEN "SHA-256" ELSE "SHA-384",
                signature |-> signature.value, data |-> data]
          ELSE [call |-> FALSE,
                outcome |-> Throw(Thrown(<<"Unsupported algorithm: ">>))]

(***************************************************************************)
(* The end of tokenVerify: the email claim                                  *)
(***************************************************************************)
identity(payload) ==
  LET userEmail == IF payload.email.t = "string" THEN payload.email ELSE JsNull IN
  IF ~Truthy(userEmail) THEN Throw(AuthError(<<"No email found in JWT payload">>))
  ELSE Return(userEmail)

\* the error mapper handing the rejection on as it is
rejectedRaw(e) == Err(e)

\* fromPromise's error mapper: a rejection becomes an AuthError
rejected(e) == Err(AuthError(<<"Invalid JWT token: ">> \o e.message))

(***************************************************************************)
(* State                                                                    *)
(***************************************************************************)
\* inv[i]: the invocation i of auth(req): where it is suspended (pc), its
\*   request, what getToken returned (extracted), the locals of tokenVerify's
\*   closure, and what it did so far (stages started, fetches issued, the response its fetch got, the clock
\*   reading of validatePayload, the outcome of crypto.subtle.verify)
\* audience: the aud argument of newAuthCloudflare (undefined when not given)
\* clock: Math.floor(Date.now() / 1000)
\* conv: a short-UUID conversion: the UUID given, what toShortUuid returned
\*   for it and what fromShortUuid returned for that
\* errors: the error objects constructed so far, in order
VARIABLES inv, audience, clock, conv, errors
vars == <<inv, audience, clock, conv, errors>>

\* the number of concurrent invocations of auth
NumInv == 2
Inv == 1..NumInv
\* the latest clock reading
MaxClock == 2

\* teamDomain, the expected issuer
ISSUER == "https://team.cloudflareaccess.com"

Pending == [pending |-> TRUE]
NoRequest == [headers |-> <<>>]
NoResponse == [kind |-> "none"]
NoCall == [call |-> FALSE]

Idle ==
  [pc |-> "idle", req |-> NoRequest, now |-> 0, token |-> <<>>,
   header |-> Undef, payload |-> Undef, resp |-> NoResponse, jwk |-> Undef,
   publicKey |-> Undef, call |-> NoCall, isValid |-> None, result |-> Pending,
   extracted |-> Pending,
   stages |-> <<>>, fetches |-> 0]

\* the invocation settles with result r
Settle(s, r) == [s EXCEPT !.pc = "done", !.result = r]
Stage(s, name) == [s EXCEPT !.stages = @ \o <<name>>]

(***************************************************************************)
(* auth(req): getToken, then tokenVerify up to its first await              *)
(***************************************************************************)
\* authStart with the throw after a failed validatePayload left out
authStartNoAbort(req, aud, time) ==
  LET s0 == Stage([Idle EXCEPT !.req = req], "extract")
      tk == getToken(req)
      s0x == [s0 EXCEPT !.extracted = tk]
  IN IF ~tk.ok THEN Settle(s0x, Err(tk.error))
     ELSE
     LET s1 == Stage([s0x EXCEPT !.token = tk.value], "decode")
         decoded == decodeJWT(tk.value)
     IN IF ~decoded.ok THEN Settle(s1, rejected(AuthError(decoded.error.message)))
        ELSE
        LET s2 == Stage([s1 EXCEPT !.header = decoded.value.header,
                                   !.payload = decoded.value.payload,
                                   !.now = time], "validate")
            v == validatePayload(decoded.value.payload, ISSUER, aud, time)
        IN IF v.thrown THEN Settle(s2, rejected(v.error))
           ELSE [Stage(s2, "fetch") EXCEPT !.pc = "fetching", !.fetches = @ + 1]

authStart(req, aud, time) ==
  LET s0 == Stage([Idle EXCEPT !.req = req], "extract")
      tk == getToken(req)
      s0x == [s0 EXCEPT !.extracted = tk]
  IN IF ~tk.ok THEN Settle(s0x, Err(tk.error))
     ELSE
     LET s1 == Stage([s0x EXCEPT !.token = tk.value], "decode")
         decoded == decodeJWT(tk.value)
     IN IF ~decoded.ok THEN Settle(s1, rejected(AuthError(decoded.error.message)))
        ELSE
        LET s2 == Stage([s1 EXCEPT !.header = decoded.value.header,
                                   !.payload = decoded.value.payload,
                                   !.now = time], "validate")
            v == validatePayload(decoded.value.payload, ISSUER, aud, time)
        IN IF v.thrown THEN Settle(s2, rejected(v.error))
           ELSE IF ~v.value.ok
           THEN Settle(s2, rejected(AuthError(v.value.error.message)))
           ELSE [Stage(s2, "fetch") EXCEPT !.pc = "fetching", !.fetches = @ + 1]

\* tokenVerify from the settling of fetchJWKS to the await of importPublicKey
afterFetch(s, resp) ==
  LET s3 == [s EXCEPT !.resp = resp]
      jwks == fetchJWKS(resp)
  IN IF jwks.thrown THEN Settle(s3, rejected(jwks.error))
     ELSE
     LET s4 == Stage(s3, "resolve")
         jwk == findJwk(jwks.value, s.header)
     IN IF jwk.thrown THEN Settle(s4, rejected(jwk.error))
        ELSE [Stage(s4, "import") EXCEPT !.pc = "importing", !.jwk = jwk.value]

\* from the settling of importPublicKey to the await in verifySignature
afterImport(s) ==
  LET publicKey == importPublicKey(s.jwk) IN
  IF publicKey.thrown THEN Settle(s, rejected(publicKey.error))
  ELSE
  LET s5 == Stage([s EXCEPT !.publicKey = publicKey.value], "verify")
      c == verifySignature(s.token, s.header.alg)
  IN IF c.call THEN [s5 EXCEPT !.pc = "verifying", !.call = c]
     ELSE IF c.outcome.thrown THEN Settle(s5, rejected(c.outcome.error))
     ELSE Settle([s5 EXCEPT !.isValid = Some(c.outcome.value)],
                 rejected(AuthError(<<"Invalid signature">>)))

\* afterVerify with the test of isValid left out
afterVerifyUnchecked(s) ==
  LET isValid == cryptoVerify(s.call.name, s.call.hash, s.publicKey,
                              s.call.signature, s.call.data)
  IN IF isValid.thrown THEN Settle(s, rejected(isValid.error))
     ELSE
     LET s7 == Stage([s EXCEPT !.isValid = Some(isValid.value)], "identity")
         userEmail == identity(s.payload)
     IN IF userEmail.thrown THEN Settle(s7, rejected(userEmail.error))
        ELSE Settle(s7, Ok(userEmail.value))

\* afterVerify reading the time again and validating the claims once more
afterVerifyRevalidated(s) ==
  LET again == validatePayload(s.payload, ISSUER, audience, clock)
      s5 == [s EXCEPT !.now = clock]
      isValid == cryptoVerify(s.call.name, s.call.hash, s.publicKey,
                              s.call.signature, s.call.data)
  IN IF ~again.thrown /\ ~again.value.ok
     THEN Settle(s5, rejected(AuthError(again.value.error.message)))
     ELSE IF isValid.thrown THEN Settle(s5, rejected(isValid.error))
     ELSE
     LET s6 == [s5 EXCEPT !.isValid = Some(isValid.value)] IN
     IF ~isValid.value THEN Settle(s6, rejected(AuthError(<<"Invalid signature">>)))
     ELSE LET s7 == Stage(s6, "identity")
              userEmail == identity(s.payload)
          IN IF userEmail.thrown THEN Settle(s7, rejected(userEmail.error))
             ELSE Settle(s7, Ok(userEmail.value))

\* from the settling of crypto.subtle.verify to the end of tokenVerify
afterVerify(s) ==
  LET isValid == cryptoVerify(s.call.name, s.call.hash, s.publicKey,
                              s.call.signature, s.call.data)
  IN IF isValid.thrown THEN Settle(s, rejected(isValid.error))
     ELSE
     LET s6 == [s EXCEPT !.isValid = Some(isValid.value)] IN
     IF ~isValid.value THEN Settle(s6, rejected(AuthError(<<"Invalid signature">>)))
     ELSE LET s7 == Stage(s6, "identity")
              userEmail == identity(s.payload)
          IN IF userEmail.thrown THEN Settle(s7, rejected(userEmail.error))
             ELSE Settle(s7, Ok(userEmail.value))

(***************************************************************************)
(* Inputs: tokens, requests, key-set responses                              *)
(***************************************************************************)
Header(alg, kid) == [t |-> "object", alg |-> alg, kid |-> kid]
Payload(exp, nbf, iss, aud, email) ==
  [t |-> "object", exp |-> exp, nbf |-> nbf, iss |-> iss, aud |-> aud,
   email |-> email]

\* the token header.payload.signature
Token(h, p, sg) == <<h, Dot, p, Dot, sg>>
\* the signature segment of a token signed with `by` and digest `hash`
Signed(h, p, by, hash) == B64(SigBytes(by, hash, <<h, Dot, p>>))

Algs == {JStr("RS256"), JStr("ES256"), JStr("ES384"), JStr("HS256")}
Kids == {Undef, JStr("k1"), JStr("k2")}
HeaderSegments ==
  {B64(Json(Header(alg, kid))) : alg \in Algs, kid \in Kids}
    \cup {B64(Json(JsNull)), B64(Text), BadChunk}

Exps == {Undef} \cup {JNum(n) : n \in 0..MaxClock}
Nbfs == {Undef, JNum(MaxClock)}
Isss == {JStr(ISSUER), JStr("https://other.example")}
Auds == {Undef, JStr(""), JStr("aud-1"), JStr("aud-2"),
         JArr(<<JStr("aud-2"), JStr("aud-1")>>)}
Emails == {Undef, JStr(""), JStr("user@example.com"), JNum(7)}
PayloadSegments ==
  {B64(Json(Payload(exp, nbf, iss, aud, email))) :
     exp \in Exps, nbf \in Nbfs, iss \in Isss, aud \in Auds,
     email \in {Undef, JStr("user@example.com")}}

\* signature segments for header h and payload p: rightly signed, signed over
\* other segments, bytes that are no signature, and a segment that is not
\* base64url
OtherData == <<B64(Text), Dot, B64(Text)>>
SignatureSegments(h, p) ==
  {Signed(h, p, "rsaA", "SHA-256"), Signed(h, p, "ecA", "SHA-256"),
   Signed(h, p, "ecB", "SHA-384"), B64(SigBytes("rsaA", "SHA-256", OtherData)),
   B64(Text), BadChunk}

GoodHeader == B64(Json(Header(JStr("RS256"), JStr("k1"))))
GoodPayload ==
  B64(Json(Payload(Undef, Undef, JStr(ISSUER), JStr("aud-1"),
                   JStr("user@example.com"))))
EmailPayloads ==
  {B64(Json(Payload(Undef, Undef, JStr(ISSUER), JStr("aud-1"), email))) :
     email \in Emails}
    \cup {B64(Json(JsNull)), B64(Text)}

\* every payload under one header, rightly signed or not; every header and
\* signature under one payload; every email under one header, rightly signed;
\* tokens that are not three segments
Tokens ==
  {Token(GoodHeader, p, B64(Text)) : p \in PayloadSegments}
  \cup {Token(GoodHeader, p, Signed(GoodHeader, p, "rsaA", "SHA-256")) :
          p \in PayloadSegments \cup EmailPayloads}
  \cup UNION {{Token(h, GoodPayload, sg) : sg \in SignatureSegments(h, GoodPayload)} :
                h \in HeaderSegments}
  \cup {<<>>, <<GoodHeader, Dot, GoodPayload>>,
        Token(GoodHeader, GoodPayload, B64(Text)) \o <<Dot, B64(Text)>>}

GoodToken == Token(GoodHeader, GoodPayload,
                   Signed(GoodHeader, GoodPayload, "rsaA", "SHA-256"))
FewTokens == {GoodToken, Token(GoodHeader, GoodPayload, B64(Text)), <<GoodHeader>>}

Request(headers) == [headers |-> headers]
\* the Cookie header "session=x; CF_Authorization=<token>" and the like
CookieHeaders ==
  {AUTH_COOKIE_KEY \o <<Eq>> \o tk : tk \in FewTokens}
  \cup {<<Ch("session"), Eq, Ch("x"), Semi, Sp>> \o AUTH_COOKIE_KEY \o <<Eq>> \o tk :
          tk \in FewTokens}
  \cup {<<Ch("session"), Eq, Ch("x")>>, <<>>}

Requests ==
  {Request(AUTH_HEADER_KEY :> tk) : tk \in Tokens}
  \cup {Request("Cookie" :> c) : c \in CookieHeaders}
  \cup {Request((AUTH_HEADER_KEY :> tk) @@ ("Cookie" :> c)) :
          tk \in FewTokens \cup {<<>>}, c \in CookieHeaders}
  \cup {Request(<<>>)}

\* the entries of a key set
JwkEntries ==
  {JWK(JStr("RSA"), JStr("k1"), Undef, "rsaA"),
   JWK(JStr("RSA"), Undef, Undef, "rsaA"),
   JWK(JStr("EC"), JStr("k1"), JStr("P-256"), "ecA"),
   JWK(JStr("EC"), JStr("k2"), JStr("P-384"), "ecB"),
   JWK(JStr("EC"), JStr("k2"), JStr("P-521"), "ecC"),
   JWK(JStr("oct"), JStr("k2"), Undef, "none")}

\* the longest keys array
MaxKeys == 2
KeyLists == UNION {[1..n -> JwkEntries] : n \in 0..MaxKeys}

Responses ==
  {FetchRejects, Response(FALSE, Text), Response(TRUE, Text),
   Response(TRUE, Json(JsNull)), Response(TRUE, Json(JWKS(Undef)))}
  \cup {Response(TRUE, Json(JWKS(JArr(keys)))) : keys \in KeyLists}

AudienceConfigs == {Undef, JStr(""), JStr("aud-1")}

(***************************************************************************)
(* Actions                                                                  *)
(***************************************************************************)
\* no conversion asked for, no error constructed
NoConversion == [pc |-> "none"]
NoErrors == <<>>

Init ==
  /\ inv = [i \in Inv |-> Idle]
  /\ audience \in AudienceConfigs
  /\ clock \in 1..MaxClock
  /\ conv = NoConversion
  /\ errors = NoErrors

\* Begin with the key set another invocation fetched used again
BeginCached(i, requests) ==
  /\ inv[i].pc = "idle"
  /\ \E req \in requests :
       LET a == authStart(req, audience, clock)
           cached == {j \in Inv : inv[j].resp.kind = "response"}
       IN inv' = [inv EXCEPT ![i] =
                    IF a.pc = "fetching" /\ cached # {}
                    THEN afterFetch([a EXCEPT !.fetches = 0],
                                    inv[CHOOSE j \in cached : TRUE].resp)
                    ELSE a]
  /\ UNCHANGED <<audience, clock, conv, errors>>

\* a caller invokes auth(req), with a request of `requests`
Begin(i, requests) ==
  /\ inv[i].pc = "idle"
  /\ \E req \in requests :
       inv' = [inv EXCEPT ![i] = authStart(req, audience, clock)]
  /\ UNCHANGED <<audience, clock, conv, errors>>

\* the key-set endpoint answers invocation i's fetch, with one of `responses`
FetchSettle(i, responses) ==
  /\ inv[i].pc = "fetching"
  /\ \E resp \in responses :
       inv' = [inv EXCEPT ![i] = afterFetch(inv[i], resp)]
  /\ UNCHANGED <<audience, clock, conv, errors>>

\* importPublicKey settles
ImportSettle(i) ==
  /\ inv[i].pc = "importing"
  /\ inv' = [inv EXCEPT ![i] = afterImport(inv[i])]
  /\ UNCHANGED <<audience, clock, conv, errors>>

\* crypto.subtle.verify settles
VerifySettle(i) ==
  /\ inv[i].pc = "verifying"
  /\ inv' = [inv EXCEPT ![i] = afterVerify(inv[i])]
  /\ UNCHANGED <<audience, clock, conv, errors>>

\* time passes
Tick ==
  /\ clock < MaxClock
  /\ clock' = clock + 1
  /\ UNCHANGED <<inv, audience, conv, errors>>

Run(i) ==
  \/ Begin(i, Requests)
  \/ FetchSettle(i, Responses)
  \/ ImportSettle(i)
  \/ VerifySettle(i)

\* one request at a time
Next == Run(1)

Spec == Init /\ [][Next]_vars

(***************************************************************************)
(* Concurrent invocations while time passes and the key set changes         *)
(***************************************************************************)
ExpiringPayload ==
  B64(Json(Payload(JNum(1), Undef, JStr(ISSUER), JStr("aud-1"),
                   JStr("user@example.com"))))
ConcRequests ==
  {Request(AUTH_HEADER_KEY :> GoodToken),
   Request("Cookie" :> (AUTH_COOKIE_KEY \o <<Eq>> \o
      Token(GoodHeader, ExpiringPayload,
            Signed(GoodHeader, ExpiringPayload, "rsaA", "SHA-256"))))}
ConcResponses ==
  {FetchRejects,
   Response(TRUE, Json(JWKS(JArr(<<JWK(JStr("RSA"), JStr("k1"), Undef, "rsaA")>>)))),
   Response(TRUE, Json(JWKS(JArr(<<JWK(JStr("EC"), JStr("k1"), JStr("P-256"), "ecA")>>))))}

InitConc ==
  /\ inv = [i \in Inv |-> Idle]
  /\ audience = JStr("aud-1")
  /\ clock = 1
  /\ conv = NoConversion
  /\ errors = NoErrors

RunConc(i) ==
  \/ Begin(i, ConcRequests)
  \/ FetchSettle(i, ConcResponses)
  \/ ImportSettle(i)
  \/ VerifySettle(i)

NextConc == (\E i \in Inv : RunConc(i)) \/ Tick

SpecConc == InitConc /\ [][NextConc]_vars

(***************************************************************************)
(* Requests with any Cookie header                                          *)
(***************************************************************************)
\* the longest Cookie header, in lexemes
MaxCookieLen == 6
CookieAlphabet == {AUTH_COOKIE_KEY[1], Esc("CF_Authorization"), Eq, Semi, Sp, Pct}
CookieStrings == UNION {[1..n -> CookieAlphabet] : n \in 0..MaxCookieLen}

InitCookie ==
  /\ inv = [i \in Inv |-> Idle]
  /\ audience = Undef
  /\ clock = 1
  /\ conv = NoConversion
  /\ errors = NoErrors

CookieRequests == {Request("Cookie" :> c) : c \in CookieStrings}

NextCookie == Begin(1, CookieRequests)

SpecCookie == InitCookie /\ [][NextCookie]_vars

(***************************************************************************)
(* Short UUIDs (uuid): a UUID is a sequence of one-character strings, the   *)
(* bytes of a Uint8Array a sequence of numbers in 0..255.                   *)
(***************************************************************************)
HexDigits == <<"0", "1", "2", "3", "4", "5", "6", "7",
               "8", "9", "a", "b", "c", "d", "e", "f">>
UpperHex == [c \in {"a", "b", "c", "d", "e", "f"} |->
               CASE c = "a" -> "A" [] c = "b" -> "B" [] c = "c" -> "C"
                 [] c = "d" -> "D" [] c = "e" -> "E" [] c = "f" -> "F"]
\* String.prototype.toLowerCase, on the characters a UUID can hold
ToLowerCase(str) ==
  [k \in DOMAIN str |->
     IF \E c \in DOMAIN UpperHex : UpperHex[c] = str[k]
     THEN CHOOSE c \in DOMAIN UpperHex : UpperHex[c] = str[k]
     ELSE str[k]]
\* [0-9a-fA-F]
IsHexDigit(c) == c \in Range(HexDigits) \/ c \in Range(UpperHex)

\* str.slice(from, to) with 0-based bounds, clamped to the string
Slice(str, from, to) ==
  SubSeq(str, from + 1, IF to > Len(str) THEN Len(str) ELSE to)

\* the number of bytes of a UUID
UuidBytes == 16
\* the positions (1-based) of the hyphens of the 8-4-4-4-12 form
HyphenAt == {9, 14, 19, 24}

\* uuidRegex.test(uuid)
uuidRegex(uuid) ==
  /\ Len(uuid) = 2 * UuidBytes + 4
  /\ \A k \in DOMAIN uuid :
       IF k \in HyphenAt THEN uuid[k] = "-" ELSE IsHexDigit(uuid[k])

\* parseInt(text, 16) of hex digits
HexValue(c) == (CHOOSE k \in DOMAIN HexDigits : HexDigits[k] = c) - 1
RECURSIVE parseInt16(_)
parseInt16(text) ==
  IF text = <<>> THEN 0
  ELSE 16 * parseInt16(SubSeq(text, 1, Len(text) - 1)) + HexValue(text[Len(text)])

\* uuidToBytes; its NaN test cannot fire on a string uuidRegex accepted
uuidToBytes(uuid) ==
  IF ~uuidRegex(uuid) THEN Err(Thrown(<<"Invalid UUID format: ">> \o uuid))
  ELSE LET hex == ToLowerCase(SelectSeq(uuid, LAMBDA c : c # "-"))
       IN Ok([i \in 1..UuidBytes |-> parseInt16(Slice(hex, (i - 1) * 2, (i - 1) * 2 + 2))])

\* b.toString(16)
toString16(b) ==
  IF b < 16 THEN <<HexDigits[b + 1]>>
  ELSE <<HexDigits[(b \div 16) + 1], HexDigits[(b % 16) + 1]>>
\* padStart without padding
padStartNone(text) == text
\* text.padStart(2, "0")
padStart(text) == IF Len(text) < 2 THEN <<"0">> \o text ELSE text

RECURSIVE Concat(_)
Concat(pieces) ==
  IF pieces = <<>> THEN <<>> ELSE pieces[1] \o Concat(Tail(pieces))

bytesToUuid(bytes) ==
  IF Len(bytes) # UuidBytes
  THEN Err(Thrown(<<"Invalid byte length for UUID: ">>))
  ELSE LET hex == Concat([k \in DOMAIN bytes |-> padStart(toString16(bytes[k]))])
       IN Ok(Slice(hex, 0, 8) \o <<"-">> \o Slice(hex, 8, 12) \o <<"-">>
             \o Slice(hex, 12, 16) \o <<"-">> \o Slice(hex, 16, 20) \o <<"-">>
             \o Slice(hex, 20, 32))

\* the base64 alphabet, by sextet value
Base64Alphabet ==
  <<"A", "B", "C", "D", "E", "F", "G", "H", "I", "J", "K", "L", "M",
    "N", "O", "P", "Q", "R", "S", "T", "U", "V", "W", "X", "Y", "Z",
    "a", "b", "c", "d", "e", "f", "g", "h", "i", "j", "k", "l", "m",
    "n", "o", "p", "q", "r", "s", "t", "u", "v", "w", "x", "y", "z",
    "0", "1", "2", "3", "4", "5", "6", "7", "8", "9", "+", "/">>
Sextet(c) == (CHOOSE k \in DOMAIN Base64Alphabet : Base64Alphabet[k] = c) - 1

\* btoa(binary), binary given as its bytes
RECURSIVE btoa(_)
btoa(bytes) ==
  LET a(v) == Base64Alphabet[v + 1] IN
  IF bytes = <<>> THEN <<>>
  ELSE IF Len(bytes) = 1
  THEN <<a(bytes[1] \div 4), a((bytes[1] % 4) * 16), "=", "=">>
  ELSE IF Len(bytes) = 2
  THEN <<a(bytes[1] \div 4), a((bytes[1] % 4) * 16 + bytes[2] \div 16),
         a((bytes[2] % 16) * 4), "=">>
  ELSE <<a(bytes[1] \div 4), a((bytes[1] % 4) * 16 + bytes[2] \div 16),
         a((bytes[2] % 16) * 4 + bytes[3] \div 64), a(bytes[3] % 64)>>
       \o btoa(SubSeq(bytes, 4, Len(bytes)))

\* str.replace(/from/g, to) for one-character patterns
ReplaceAll(str, from, to) ==
  [k \in DOMAIN str |-> IF str[k] = from THEN to ELSE str[k]]
\* str.replace(/=+$/g, "")
RECURSIVE StripPadding(_)
StripPadding(str) ==
  IF str # <<>> /\ str[Len(str)] = "="
  THEN StripPadding(SubSeq(str, 1, Len(str) - 1)) ELSE str

base64UrlEncode(bytes) ==
  StripPadding(ReplaceAll(ReplaceAll(btoa(bytes), "+", "-"), "/", "_"))

\* atob(base64): at most two "=" at the end of a string whose length is a
\* multiple of 4 are dropped; what is left must be alphabet characters and
\* not one character more than a multiple of 4; bits left over are dropped.
RECURSIVE AtobBytes(_)
AtobBytes(data) ==
  LET v(k) == Sextet(data[k]) IN
  IF Len(data) < 2 THEN <<>>
  ELSE IF Len(data) = 2 THEN <<(v(1) * 64 + v(2)) \div 16>>
  ELSE IF Len(data) = 3
  THEN LET n == v(1) * 4096 + v(2) * 64 + v(3)
       IN <<n \div 1024, (n \div 4) % 256>>
  ELSE LET n == v(1) * 262144 + v(2) * 4096 + v(3) * 64 + v(4)
       IN <<n \div 65536, (n \div 256) % 256, n % 256>>
          \o AtobBytes(SubSeq(data, 5, Len(data)))
atob(base64) ==
  LET n == Len(base64)
      drop == IF n % 4 = 0 /\ n >= 2 /\ base64[n] = "="
              THEN (IF base64[n - 1] = "=" THEN 2 ELSE 1) ELSE 0
      data == SubSeq(base64, 1, n - drop)
  IN IF Len(data) % 4 = 1 \/ \E k \in DOMAIN data : data[k] \notin Range(Base64Alphabet)
     THEN Throw(Thrown(<<"Invalid character">>))
     ELSE Return(AtobBytes(data))

\* /^[A-Za-z0-9_-]{22,24}$/.test(short)
shortRegex(short) ==
  /\ Len(short) \in 22..24
  /\ \A k \in DOMAIN short :
       short[k] \in (Range(Base64Alphabet) \ {"+", "/"}) \cup {"_", "-"}

\* base64UrlDecode of the uuid module
shortBase64UrlDecode(short) ==
  IF ~shortRegex(short) THEN Err(Thrown(<<"Invalid short UUID format: ">> \o short))
  ELSE LET base64 == ReplaceAll(ReplaceAll(short, "-", "+"), "_", "/")
           pad == Len(base64) % 4
           padded == base64 \o [k \in 1..(IF pad = 0 THEN 0 ELSE 4 - pad) |-> "="]
           binary == atob(padded)
       IN IF binary.thrown THEN Err(Thrown(<<"Invalid base64 input">>))
          ELSE Ok(binary.value)

toShortUuid(uuid) ==
  LET bytes == uuidToBytes(uuid) IN
  IF bytes.ok THEN Ok(base64UrlEncode(bytes.value)) ELSE bytes

fromShortUuid(short) ==
  LET bytes == shortBase64UrlDecode(short) IN
  IF bytes.ok THEN bytesToUuid(bytes.value) ELSE bytes

\* the UUIDs converted: every byte value at every byte position, in lower and
\* in upper case, the other bytes being all 00, all ff or all a5; and
\* strings that are not UUIDs
FillBytes == {0, 255, 165}
UuidText(bytes, upper) ==
  LET pair(k) == <<HexDigits[(bytes[k] \div 16) + 1], HexDigits[(bytes[k] % 16) + 1]>>
      group(from, to) == Concat([k \in 1..(to - from + 1) |-> pair(from + k - 1)])
      lower == group(1, 4) \o <<"-">> \o group(5, 6) \o <<"-">> \o group(7, 8)
               \o <<"-">> \o group(9, 10) \o <<"-">> \o group(11, 16)
  IN IF upper
     THEN [k \in DOMAIN lower |->
             IF lower[k] \in DOMAIN UpperHex THEN UpperHex[lower[k]] ELSE lower[k]]
     ELSE lower
ZeroUuid == UuidText([k \in 1..UuidBytes |-> 0], FALSE)
WellFormedUuids ==
  {UuidText([k \in 1..UuidBytes |-> IF k = pos THEN v ELSE fill], upper) :
     pos \in 1..UuidBytes, v \in 0..255, fill \in FillBytes, upper \in BOOLEAN}
NotUuids ==
  {<<>>, Tail(ZeroUuid), ZeroUuid \o <<"0">>, [ZeroUuid EXCEPT ![1] = "g"],
   [ZeroUuid EXCEPT ![9] = "0"], [ZeroUuid EXCEPT ![10] = "-"]}
UuidInputs == WellFormedUuids \cup NotUuids

InitUuid ==
  /\ inv = [i \in Inv |-> Idle]
  /\ audience = Undef
  /\ clock = 1
  /\ conv \in {[pc |-> "given", uuid |-> u] : u \in UuidInputs}
  /\ errors = NoErrors

\* toShortUuid(uuid) is called
ToShort ==
  /\ conv.pc = "given"
  /\ conv' = [pc |-> "short", uuid |-> conv.uuid, short |-> toShortUuid(conv.uuid)]
  /\ UNCHANGED <<inv, audience, clock, errors>>

\* fromShortUuid is called with what toShortUuid returned
FromShort ==
  /\ conv.pc = "short"
  /\ conv.short.ok
  /\ conv' = [pc |-> "restored", uuid |-> conv.uuid, short |-> conv.short,
              restored |-> fromShortUuid(conv.short.value)]
  /\ UNCHANGED <<inv, audience, clock, errors>>

NextUuid == ToShort \/ FromShort

SpecUuid == InitUuid /\ [][NextUuid]_vars

\* C11: for every well-formed UUID (8-4-4-4-12 hex digits, any case),
\* toShortUuid succeeds with 22 URL-safe characters and fromShortUuid of
\* these succeeds with the UUID in lower case; the all-zero UUID maps to 22
\* "A" and back.
C11_ShortUuidRoundTrip ==
  (conv.pc \in {"short", "restored"} /\ uuidRegex(conv.uuid)) =>
    /\ conv.short.ok
    /\ Len(conv.short.value) = 22
    /\ \A k \in 1..22 :
         conv.short.value[k] \in
           (Range(Base64Alphabet) \ {"+", "/"}) \cup {"_", "-"}
    /\ conv.uuid = ZeroUuid => conv.short.value = [k \in 1..22 |-> "A"]
    /\ conv.pc = "restored" =>
         /\ conv.restored.ok
         /\ conv.restored.value = ToLowerCase(conv.uuid)

\* an upper-case UUID with a byte below 16 and characters "-" and "_" in its
\* short form, restored
C11_Witness ==
  /\ conv.pc = "restored"
  /\ conv.uuid # ToLowerCase(conv.uuid)
  /\ \E k \in 1..36 : conv.uuid[k] = "0" /\ k \notin HyphenAt
  /\ \E k \in 1..22 : conv.short.value[k] \in {"-", "_"}
  /\ conv.restored.ok

(***************************************************************************)
(* Constructing errors (error.ts)                                           *)
(***************************************************************************)
\* the most errors constructed in one behaviour
MaxErrors == 2
Messages == {<<"not found">>, <<>>}
DetailsGiven == {<<>>, <<<<>>>>, <<<<"field: required">>>>}
\* an Error of the platform, given as the cause
PlainError == [name |-> "Error", proto |-> "Error", message |-> <<"boom">>,
               stack |-> <<"at fetch">>]

InitError ==
  /\ inv = [i \in Inv |-> Idle]
  /\ audience = Undef
  /\ clock = 1
  /\ conv = NoConversion
  /\ errors = NoErrors

\* new c(message, details, e) for a class c that is not abstract
Construct ==
  /\ Len(errors) < MaxErrors
  /\ \E c \in Concrete, message \in Messages, details \in DetailsGiven,
        e \in {<<>>, <<PlainError>>} \cup {<<errors[k]>> : k \in DOMAIN errors} :
       errors' = Append(errors, construct(c, message, details, e))
  /\ UNCHANGED <<inv, audience, clock, conv>>

NextError == Construct

SpecError == InitError /\ [][NextError]_vars

\* C12 (as claimed): an AuthError, ValidationError or NotFoundError is an
\* instance of its own class, of UserError and of AppError, and not of
\* SystemError, and its code is the code of its own class.
C12_HierarchyKept ==
  \A k \in DOMAIN errors :
    LET o == errors[k] IN
    o.name \in {"AuthError", "ValidationError", "NotFoundError"} =>
      /\ InstanceOf(o, o.name)
      /\ InstanceOf(o, "UserError")
      /\ InstanceOf(o, "AppError")
      /\ ~InstanceOf(o, "SystemError")
      /\ o.code = CodeOf[o.name][1]

(***************************************************************************)
(* Properties                                                               *)
(***************************************************************************)
Last(seq) == seq[Len(seq)]
IsPrefix(a, b) == Len(a) <= Len(b) /\ SubSeq(b, 1, Len(a)) = a
Done(i) == inv[i].pc = "done"
Succeeded(i) == Done(i) /\ inv[i].result.ok
Failed(i) == Done(i) /\ ~inv[i].result.ok
FailedWith(i, msg) == Failed(i) /\ inv[i].result.error = AuthError(msg)
Wrapped(msg) == <<"Invalid JWT token: ">> \o msg

\* the keys array of the key set the fetch of s returned
FetchedKeys(s) == s.resp.body.v.keys.a
\* the token's first two segments as transmitted, joined by "."
SignedSegments(token) ==
  LET d1 == IndexOf(token, Dot)
      rest == SubSeq(token, d1 + 1, Len(token))
  IN SubSeq(token, 1, d1 + IndexOf(rest, Dot) - 1)

\* crypto.subtle.verify returned true for the token's signature over its
\* original header.payload under the key imported from the first key-set
\* entry whose kid is the header's
SignatureChecked(s) ==
  /\ s.isValid = Some(TRUE)
  /\ s.call.call
  /\ s.call.data = SignedSegments(s.token)
  /\ B64(s.call.signature) = s.token[Len(s.token)]
  /\ \E k \in DOMAIN FetchedKeys(s) :
       /\ FetchedKeys(s)[k].kid = s.header.kid
       /\ \A j \in 1..(k - 1) : FetchedKeys(s)[j].kid # s.header.kid
       /\ s.jwk = FetchedKeys(s)[k]
       /\ s.publicKey.mat = s.jwk.mat

\* C1: auth succeeds only if crypto.subtle.verify returned true for the
\* token's original header.payload under the key selected by the header's kid;
\* when the signature stage is reached and the check returns false, the result
\* is the invalid-signature AuthError.
C1_SignatureDecides ==
  \A i \in Inv :
    /\ Succeeded(i) => SignatureChecked(inv[i])
    /\ (Done(i) /\ inv[i].isValid = Some(FALSE))
         => FailedWith(i, Wrapped(<<"Invalid signature">>))

\* a run that reached crypto.subtle.verify and got false
C1_Witness == \E i \in Inv : Done(i) /\ inv[i].isValid = Some(FALSE)

CanonicalStages ==
  <<"extract", "decode", "validate", "fetch", "resolve", "import", "verify",
    "identity">>

\* the messages of the errors in which each stage can end
StageErrors(stage) ==
  CASE stage = "extract" ->
         {<<"No Cookie header found">>, <<"No token found in cookies">>}
    [] stage = "decode" ->
         {Wrapped(<<"Invalid JWT format">>),
          Wrapped(<<"Failed to decode JWT: ", "Invalid character">>),
          Wrapped(<<"Failed to decode JWT: ", "Unexpected token in JSON">>)}
    [] stage = "validate" ->
         {Wrapped(<<"Token has expired">>), Wrapped(<<"Token is not yet valid">>),
          Wrapped(<<"Invalid issuer">>), Wrapped(<<"Invalid audience">>),
          Wrapped(<<"Cannot read properties of null">>)}
    [] stage = "fetch" ->
         {Wrapped(<<"fetch failed">>),
          Wrapped(<<"Failed to fetch JWKS: ", "statusText">>),
          Wrapped(<<"Unexpected token in JSON">>)}
    [] stage = "resolve" ->
         {Wrapped(<<"Cannot read properties of null">>),
          Wrapped(<<"jwks.keys.find is not a function">>),
          Wrapped(<<"No matching key found for kid: ">>)}
    [] stage = "import" ->
         {Wrapped(<<"DataError">>), Wrapped(<<"Unsupported key type: ">>)}
    [] stage = "verify" ->
         {Wrapped(<<"Invalid character">>),
          Wrapped(<<"algorithm.startsWith is not a function">>),
          Wrapped(<<"Unsupported algorithm: ">>), Wrapped(<<"InvalidAccessError">>),
          Wrapped(<<"Invalid signature">>)}
    [] OTHER -> {Wrapped(<<"No email found in JWT payload">>)}

Started(s, stage) == stage \in Range(s.stages)

\* each stage of s was started only after the stage before it succeeded
PreviousSucceeded(s) ==
  /\ Started(s, "decode") => getToken(s.req) = Ok(s.token)
  /\ Started(s, "validate") => decodeJWT(s.token).ok
  /\ Started(s, "fetch") =>
       validatePayload(s.payload, ISSUER, audience, s.now) = Return(Ok(Undef))
  /\ Started(s, "resolve") => ~fetchJWKS(s.resp).thrown
  /\ Started(s, "import") => ~findJwk(fetchJWKS(s.resp).value, s.header).thrown
  /\ Started(s, "verify") => ~importPublicKey(s.jwk).thrown
  /\ Started(s, "identity") => s.isValid = Some(TRUE)

\* C2: the stages run in the order extract, decode, validate, fetch, resolve,
\* import, verify, identity, each at most once and only after the stage
\* before it succeeded; the key set is fetched (once) only when the fetch
\* stage is started; a failed run ends with an error of the last stage it
\* started, and a successful run started them all.
C2_StagesInOrder ==
  \A i \in Inv :
    LET s == inv[i] IN
    /\ IsPrefix(s.stages, CanonicalStages)
    /\ (s.pc = "idle") = (s.stages = <<>>)
    /\ PreviousSucceeded(s)
    /\ s.fetches = (IF Started(s, "fetch") THEN 1 ELSE 0)
    /\ s.pc = "fetching" => Last(s.stages) = "fetch"
    /\ s.pc = "importing" => Last(s.stages) = "import"
    /\ s.pc = "verifying" => Last(s.stages) = "verify"
    /\ Succeeded(i) => s.stages = CanonicalStages
    /\ Failed(i) =>
         /\ s.result.error.name = "AuthError"
         /\ s.result.error.message \in StageErrors(Last(s.stages))

\* a run that failed in key resolution, after the fetch and before any import
C2_Witness ==
  \E i \in Inv : Failed(i) /\ Last(inv[i].stages) = "resolve"

\* C3 (as claimed): a token whose exp is present, whatever its value, and less
\* than the clock reading of validatePayload fails with the expired error.
C3_ExpiredRejected ==
  \A i \in Inv :
    LET s == inv[i] IN
    (/\ Started(s, "validate")
     /\ s.payload.t = "object"
     /\ s.payload.exp.t = "number"
     /\ s.payload.exp.n < s.now)
      => FailedWith(i, Wrapped(<<"Token has expired">>))

\* the key-set entry's identifier matches the header's key identifier; a
\* header without one matches no entry
KidMatches(entry, header) == header.kid.t = "string" /\ entry.kid = header.kid

\* C4 (as claimed): when key resolution runs on a keys array none of whose
\* entries matches the header's kid, the run fails with key-not-found and no
\* key is imported.
C4_NoMatchKeyNotFound ==
  \A i \in Inv :
    LET s == inv[i] IN
    (/\ Started(s, "resolve")
     /\ s.resp.body.v.t = "object"
     /\ s.resp.body.v.keys.t = "array"
     /\ s.header.t = "object"
     /\ ~\E k \in DOMAIN FetchedKeys(s) : KidMatches(FetchedKeys(s)[k], s.header))
      => /\ FailedWith(i, Wrapped(<<"No matching key found for kid: ">>))
         /\ ~Started(s, "import")
         /\ s.publicKey = Undef

\* the aud claim as a set: absent is empty, a scalar a singleton, an array
\* its elements
AudSet(aud) ==
  CASE aud.t = "undefined" -> {}
    [] aud.t = "array" -> Range(aud.a)
    [] OTHER -> {aud}

\* validatePayload of s passed the exp, nbf and iss checks
ReachedAudienceCheck(s) ==
  /\ Started(s, "validate")
  /\ s.payload.t = "object"
  /\ ~(Truthy(s.payload.exp) /\ s.payload.exp.n < s.now)
  /\ ~(Truthy(s.payload.nbf) /\ s.payload.nbf.n > s.now)
  /\ s.payload.iss = JStr(ISSUER)

AudienceEnforced ==
  \A i \in Inv :
    LET s == inv[i] IN
    /\ (ReachedAudienceCheck(s) /\ audience \notin AudSet(s.payload.aud))
         => FailedWith(i, Wrapped(<<"Invalid audience">>))
    /\ Succeeded(i) => audience \in AudSet(s.payload.aud)

\* C5 (as claimed): with any expected audience given, a token that reaches the
\* audience check is rejected with audience-mismatch unless the audience is
\* in its aud set, and no token succeeds whose aud set lacks it.
C5_AnyAudienceEnforced == audience # Undef => AudienceEnforced

\* C5 (amended): the same, for a non-empty expected audience.
C5_AudienceEnforced == Truthy(audience) => AudienceEnforced

\* a token with an aud array that lacks the audience was rejected
C5_Witness ==
  \E i \in Inv :
    /\ Truthy(audience)
    /\ FailedWith(i, Wrapped(<<"Invalid audience">>))

\* the values of the plain pairs "CF_Authorization=value" of a Cookie header
PlainValue(piece) ==
  LET t == Trim(piece) IN
  IF Len(t) >= 2 /\ t[1] = AUTH_COOKIE_KEY[1] /\ t[2] = Eq
  THEN Trim(SubSeq(t, 3, Len(t))) ELSE <<>>
CookieValues(cookieHeader) ==
  LET pieces == Split(cookieHeader, Semi) IN
  {PlainValue(pieces[k]) : k \in DOMAIN pieces} \ {<<>>}

\* C6: a request with the token header yields the header's value whatever its
\* Cookie header is; without the token header the token is a value of the
\* cookie; extraction fails, with a no-token error, only when the header is
\* absent and the cookie yields no value.
C6_HeaderFirst ==
  \A i \in Inv :
    LET s == inv[i]
        h == s.req.headers
    IN Started(s, "extract") =>
       /\ AUTH_HEADER_KEY \in DOMAIN h =>
            /\ s.extracted = Ok(h[AUTH_HEADER_KEY])
            /\ \A c \in CookieHeaders :
                 getToken(Request((AUTH_HEADER_KEY :> h[AUTH_HEADER_KEY])
                                    @@ ("Cookie" :> c))) = s.extracted
       /\ (AUTH_HEADER_KEY \notin DOMAIN h /\ s.extracted.ok) =>
            /\ "Cookie" \in DOMAIN h
            /\ s.extracted.value \in CookieValues(h["Cookie"])
       /\ ~s.extracted.ok =>
            /\ AUTH_HEADER_KEY \notin DOMAIN h
            /\ "Cookie" \in DOMAIN h => CookieValues(h["Cookie"]) = {}
            /\ Failed(i)
            /\ s.result.error.message \in StageErrors("extract")
            /\ s.stages = <<"extract">>

\* a request with the token header and a cookie that holds another token
C6_Witness ==
  \E i \in Inv :
    LET h == inv[i].req.headers IN
    /\ Started(inv[i], "extract")
    /\ AUTH_HEADER_KEY \in DOMAIN h
    /\ "Cookie" \in DOMAIN h
    /\ CookieValues(h["Cookie"]) # {}
    /\ h[AUTH_HEADER_KEY] \notin CookieValues(h["Cookie"])

RECURSIVE Join(_, _)
Join(pieces, sep) ==
  IF Len(pieces) = 1 THEN pieces[1]
  ELSE pieces[1] \o <<sep>> \o Join(Tail(pieces), sep)

RECURSIVE Orders(_)
Orders(S) ==
  IF S = {} THEN {<<>>}
  ELSE UNION {{<<x>> \o o : o \in Orders(S \ {x})} : x \in S}

\* the Cookie headers made of the pairs of cookieHeader in any order
Reorderings(cookieHeader) ==
  LET pieces == Split(cookieHeader, Semi) IN
  {Join([k \in DOMAIN pieces |-> pieces[o[k]]], Semi) : o \in Orders(DOMAIN pieces)}

\* how many pairs of the header have the name CF_Authorization
Named(cookieHeader) ==
  LET pieces == Split(cookieHeader, Semi) IN
  Cardinality({k \in DOMAIN pieces : CookiePair(pieces[k])[1] = AUTH_COOKIE_KEY})

OrderIndependent(s) ==
  \A c \in Reorderings(s.req.headers["Cookie"]) :
    getTokenFromCookie(Request("Cookie" :> c), AUTH_COOKIE_KEY) = s.extracted

\* C7 (as claimed): the result of getTokenFromCookie is the same for every
\* reordering of the pairs of the Cookie header.
C7_AnyOrder ==
  \A i \in Inv : Started(inv[i], "extract") => OrderIndependent(inv[i])

\* C7 (amended): the same, for a Cookie header in which at most one pair has
\* the name CF_Authorization.
C7_AnyOrderOneNamed ==
  \A i \in Inv :
    (Started(inv[i], "extract") /\ Named(inv[i].req.headers["Cookie"]) <= 1)
      => OrderIndependent(inv[i])

\* a token taken from a header of several pairs, one of them named
C7_Witness ==
  \E i \in Inv :
    /\ Started(inv[i], "extract")
    /\ inv[i].extracted.ok
    /\ Named(inv[i].req.headers["Cookie"]) = 1
    /\ Len(Split(inv[i].req.headers["Cookie"], Semi)) >= 2

EndsWith(msg, tail) ==
  Len(tail) <= Len(msg) /\ SubSeq(msg, Len(msg) - Len(tail) + 1, Len(msg)) = tail

\* the message of the error of s ends with the description of what failed
DescriptionKept(s) ==
  LET msg == s.result.error.message
      at(stage) == Last(s.stages) = stage
      answered == s.resp.kind = "response"
      parsed == answered /\ s.resp.ok /\ s.resp.body.k = "json"
  IN
  /\ (at("validate") /\ s.payload.t = "null")
       => EndsWith(msg, <<"Cannot read properties of null">>)
  /\ (at("fetch") /\ s.resp.kind = "reject") => EndsWith(msg, <<"fetch failed">>)
  /\ (at("fetch") /\ answered /\ ~s.resp.ok)
       => EndsWith(msg, <<"Failed to fetch JWKS: ", "statusText">>)
  /\ (at("fetch") /\ answered /\ s.resp.ok /\ s.resp.body.k # "json")
       => EndsWith(msg, <<"Unexpected token in JSON">>)
  /\ (at("resolve") /\ parsed /\ s.resp.body.v.t = "null")
       => EndsWith(msg, <<"Cannot read properties of null">>)
  /\ (at("resolve") /\ parsed /\ s.resp.body.v.t = "object"
        /\ s.resp.body.v.keys.t # "array")
       => EndsWith(msg, <<"jwks.keys.find is not a function">>)
  /\ (at("resolve") /\ parsed /\ s.resp.body.v.t = "object"
        /\ s.resp.body.v.keys.t = "array" /\ s.header.t = "null")
       => EndsWith(msg, <<"Cannot read properties of null">>)
  /\ (at("import") /\ s.jwk.kty \notin {JStr("RSA"), JStr("EC")})
       => EndsWith(msg, <<"Unsupported key type: ">>)
  /\ (at("import") /\ s.jwk.kty \in {JStr("RSA"), JStr("EC")})
       => EndsWith(msg, <<"DataError">>)
  /\ (at("verify") /\ s.token[Len(s.token)] = BadChunk)
       => EndsWith(msg, <<"Invalid character">>)
  /\ (at("verify") /\ s.token[Len(s.token)] # BadChunk
        /\ s.header.alg \notin {JStr("RS256"), JStr("ES256"), JStr("ES384")}
        /\ ~s.call.call)
       => EndsWith(msg, <<"Unsupported algorithm: ">>)

\* C8: whatever the key-set endpoint and the crypto primitives return or throw,
\* auth settles to a success or to a failure that holds an error built by
\* AuthError (its name and code are AuthError's), whose message ends with the
\* description of what failed.
C8_FailuresWrapped ==
  \A i \in Inv :
    Done(i) =>
      \/ inv[i].result.ok
      \/ /\ inv[i].result.error.name = "AuthError"
         /\ inv[i].result.error.code = "Auth Error"
         /\ DescriptionKept(inv[i])

\* a run whose fetch was rejected
C8_Witness ==
  \E i \in Inv :
    /\ Failed(i)
    /\ inv[i].resp.kind = "reject"
    /\ inv[i].result.error.message = Wrapped(<<"fetch failed">>)

\* C9 (as claimed): a successful run yields a User {id, mail} whose mail is the
\* payload's email claim; a run succeeds only when that claim is a non-empty
\* string, and ends in missing-identity-claim otherwise.
C9_UserReturned ==
  \A i \in Inv :
    LET s == inv[i] IN
    /\ Succeeded(i) =>
         /\ s.result.value.t = "object"
         /\ s.result.value.mail = s.payload.email
         /\ s.payload.email.t = "string"
         /\ s.payload.email.s # ""
    /\ (Done(i) /\ Started(s, "identity")
          /\ ~(s.payload.email.t = "string" /\ s.payload.email.s # ""))
         => FailedWith(i, Wrapped(<<"No email found in JWT payload">>))

\* auth(req) run alone, with the clock reading `time` and the fetch answered
\* by resp
AuthAlone(req, aud, time, resp) ==
  LET a == authStart(req, aud, time)
      b == IF a.pc = "fetching" THEN afterFetch(a, resp) ELSE a
      c == IF b.pc = "importing" THEN afterImport(b) ELSE b
  IN IF c.pc = "verifying" THEN afterVerify(c) ELSE c

\* C10: under any interleaving, an invocation that started the key-set stage
\* issued exactly one fetch of its own, and its outcome is the outcome of
\* running alone with its request, its clock reading and the response to
\* its fetch.
C10_Independent ==
  \A i \in Inv :
    LET s == inv[i] IN
    /\ s.fetches = (IF Started(s, "fetch") THEN 1 ELSE 0)
    /\ Started(s, "resolve") => s.resp.kind = "response"
    /\ Done(i) => s = AuthAlone(s.req, audience, s.now, s.resp)

\* two invocations whose fetches were answered differently: one succeeded,
\* the other failed in key resolution or later
C10_Witness ==
  \E i, j \in Inv :
    /\ Succeeded(i)
    /\ Failed(j)
    /\ Started(inv[j], "resolve")
    /\ inv[i].resp # inv[j].resp

\* a token of three segments whose signature segment is not base64url
BadSignatureSegment(token) ==
  LET parts == Split(token, Dot) IN
  Len(parts) = 3 /\ \E k \in DOMAIN parts[3] : NotBase64(parts[3][k])

\* C13 (as claimed): a three-segment token whose signature segment is not
\* valid base64url is rejected by the decode stage, before claim validation
\* and before any key-set fetch or key import.
C13_DecodeRejectsBadSignature ==
  \A i \in Inv :
    LET s == inv[i] IN
    (Started(s, "decode") /\ BadSignatureSegment(s.token)) =>
      /\ Last(s.stages) = "decode"
      /\ Failed(i)
      /\ s.result.error.message \in StageErrors("decode")
      /\ s.fetches = 0

\* C13 (amended): the decode stage keeps the signature segment undecoded, so
\* a three-segment token whose signature segment is not valid base64url
\* passes the decode stage exactly when its header and payload segments
\* decode; it never succeeds, and when its claims are valid and a key is
\* resolved and imported it is rejected by the signature stage, after the
\* key-set fetch and the key import, with the decoder's error wrapped.
C13_SignatureDecodedAtVerify ==
  \A i \in Inv :
    LET s == inv[i]
        parts == Split(s.token, Dot)
    IN (Started(s, "decode") /\ BadSignatureSegment(s.token)) =>
         /\ Started(s, "validate") <=>
              (~ParseSegment(parts[1]).thrown /\ ~ParseSegment(parts[2]).thrown)
         /\ Done(i) => ~s.result.ok
         /\ ~Started(s, "identity")
         /\ (Done(i) /\ Started(s, "verify")) =>
              /\ FailedWith(i, Wrapped(<<"Invalid character">>))
              /\ s.fetches = 1
              /\ Started(s, "import")
              /\ s.publicKey # Undef

\* a token with such a signature segment rejected by the signature stage
C13_Witness ==
  \E i \in Inv :
    /\ Failed(i)
    /\ BadSignatureSegment(inv[i].token)
    /\ Last(inv[i].stages) = "verify"
    /\ inv[i].fetches = 1

\* the step of invocation i that reads the time, and the steps after it
ReadsClockOnce(i) ==
  /\ (inv[i].pc = "idle" /\ Started(inv'[i], "validate")) => inv'[i].now = clock
  /\ inv[i].pc # "idle" => inv'[i].now = inv[i].now
\* an invocation past claim validation is judged by the reading it took: its
\* claims were valid at that reading, and it does not end in expired or
\* not-yet-valid whatever the time is by then
JudgedAtReading(i) ==
  LET s == inv[i] IN
  Started(s, "fetch") =>
    /\ s.now <= clock
    /\ ~(Truthy(s.payload.exp) /\ s.payload.exp.n < s.now)
    /\ ~(Truthy(s.payload.nbf) /\ s.payload.nbf.n > s.now)
    /\ Failed(i) => s.result.error.message \notin
                       {Wrapped(<<"Token has expired">>),
                        Wrapped(<<"Token is not yet valid">>)}

\* C14: the time is read once per verification, in the step that validates
\* the claims and issues the fetch; no later step reads it or checks exp and
\* nbf again, so a verification whose token was not expired at that reading
\* is not failed for expiry however late it ends.
C14_TimeReadOnce ==
  /\ [](\A i \in Inv : JudgedAtReading(i))
  /\ [][\A i \in Inv : ReadsClockOnce(i)]_vars

\* a verification that succeeded at an instant at which its token is expired
C14_Witness ==
  \E i \in Inv :
    /\ Succeeded(i)
    /\ Truthy(inv[i].payload.exp)
    /\ inv[i].payload.exp.n >= inv[i].now
    /\ inv[i].payload.exp.n < clock

=============================================================================
